---- MODULE Spec2Model ----
(***************************************************************************)
(* Media-Scope: TelegramMediaAnalyzer (src/MediaScope.py).                 *)
(* The analyzer streams the messages of a channel, classifies every        *)
(* document attachment and accumulates self.stats; at stream end it        *)
(* displays and saves the statistics.                                      *)
(*                                                                         *)
(* Python values: a str is a sequence of one-character strings, None of a   *)
(* str-valued field is NoneStr, None of a media type is None.              *)
(***************************************************************************)
EXTENDS Integers, Sequences, FiniteSets, TLC

\* ---------------------------------------------------------------- bounds
MaxSize == 1
MaxPulled == 3
MaxRuns == 2

\* ------------------------------------------------------- Python values
None == "None"
NoneStr == <<"None">>
NoTime == 0
Unknown == <<"U","n","k","n","o","w","n">>

UpperLetters == <<"A","B","C","D","E","F","G","H","I","J","K","L","M","N","O","P","Q","R","S","T","U","V","W","X","Y","Z">>
LowerLetters == <<"a","b","c","d","e","f","g","h","i","j","k","l","m","n","o","p","q","r","s","t","u","v","w","x","y","z">>

\* str.lower() on one character
lower_char(c) ==
  IF \E i \in 1..Len(UpperLetters) : UpperLetters[i] = c
    THEN LowerLetters[CHOOSE i \in 1..Len(UpperLetters) : UpperLetters[i] = c]
    ELSE c

\* a lower() that leaves the letter case as it is
lower_KeepCase(s) == s

\* str.lower()
lower(s) == [i \in 1..Len(s) |-> lower_char(s[i])]

\* str.rfind(ch), 1-based; 0 when ch does not occur
rfind(s, ch) ==
  IF \E i \in 1..Len(s) : s[i] = ch
    THEN CHOOSE i \in 1..Len(s) : s[i] = ch /\ \A j \in (i+1)..Len(s) : s[j] # ch
    ELSE 0

\* the components of a path: split at "/", empty and "." components dropped
RECURSIVE parts(_, _)
parts(s, cur) ==
  IF s = <<>>
    THEN IF cur \in {<<>>, <<".">>} THEN <<>> ELSE <<cur>>
    ELSE IF Head(s) = "/"
      THEN (IF cur \in {<<>>, <<".">>} THEN <<>> ELSE <<cur>>) \o parts(Tail(s), <<>>)
      ELSE parts(Tail(s), Append(cur, Head(s)))

\* PurePath.name: the final path component
name(path) ==
  LET p == parts(path, <<>>) IN IF p = <<>> THEN <<>> ELSE p[Len(p)]

\* PurePath.suffix: from the last dot of the name, unless that dot is the
\* first or the last character of the name
suffix(path) ==
  LET n == name(path)
      i == rfind(n, ".")
  IN IF 1 < i /\ i < Len(n) THEN SubSeq(n, i, Len(n)) ELSE <<>>

\* ------------------------------------------------- self.file_types (41-62)
\* a dict keeps insertion order: the table is a sequence
file_types ==
  <<
    [type_name |-> "videos", extensions |-> {
        <<".","m","p","4">>, <<".","a","v","i">>, <<".","m","k","v">>,
        <<".","m","o","v">>, <<".","w","m","v">>, <<".","f","l","v">>,
        <<".","w","e","b","m">>, <<".","m","4","v">>, <<".","3","g","p">>,
        <<".","m","p","e","g">>, <<".","m","p","g">>, <<".","m","2","t","s">>}],
    [type_name |-> "audio", extensions |-> {
        <<".","m","p","3">>, <<".","w","a","v">>, <<".","o","g","g">>,
        <<".","m","4","a">>, <<".","f","l","a","c">>, <<".","a","a","c">>,
        <<".","w","m","a">>, <<".","a","i","f","f">>, <<".","a","l","a","c">>}],
    [type_name |-> "images", extensions |-> {
        <<".","j","p","g">>, <<".","j","p","e","g">>, <<".","p","n","g">>,
        <<".","g","i","f">>, <<".","b","m","p">>, <<".","w","e","b","p">>,
        <<".","t","i","f","f">>, <<".","s","v","g">>, <<".","r","a","w">>,
        <<".","h","e","i","c">>}],
    [type_name |-> "documents", extensions |-> {
        <<".","p","d","f">>, <<".","d","o","c">>, <<".","d","o","c","x">>,
        <<".","t","x","t">>, <<".","r","t","f">>, <<".","o","d","t">>,
        <<".","x","l","s">>, <<".","x","l","s","x">>, <<".","p","p","t">>,
        <<".","p","p","t","x">>}],
    [type_name |-> "archives", extensions |-> {
        <<".","z","i","p">>, <<".","r","a","r">>, <<".","7","z">>,
        <<".","t","a","r">>, <<".","g","z">>, <<".","b","z","2">>,
        <<".","x","z">>, <<".","i","s","o">>}],
    [type_name |-> "code", extensions |-> {
        <<".","p","y">>, <<".","j","s">>, <<".","j","a","v","a">>,
        <<".","c","p","p">>, <<".","c">>, <<".","h","t","m","l">>,
        <<".","c","s","s">>, <<".","p","h","p">>, <<".","j","s","o","n">>,
        <<".","x","m","l">>, <<".","s","q","l">>, <<".","r">>,
        <<".","s","w","i","f","t">>}],
    [type_name |-> "ebooks", extensions |-> {
        <<".","e","p","u","b">>, <<".","m","o","b","i">>, <<".","a","z","w">>,
        <<".","a","z","w","3">>}],
    [type_name |-> "design", extensions |-> {
        <<".","p","s","d">>, <<".","a","i">>, <<".","x","d">>,
        <<".","s","k","e","t","c","h">>, <<".","f","i","g">>, <<".","x","c","f">>}],
    [type_name |-> "data", extensions |-> {
        <<".","c","s","v">>, <<".","d","b">>, <<".","s","q","l">>,
        <<".","s","q","l","i","t","e">>, <<".","x","l","s","x">>, <<".","j","s","o","n">>,
        <<".","x","m","l">>}],
    [type_name |-> "apps", extensions |-> {
        <<".","a","p","k">>, <<".","i","p","a">>, <<".","a","a","b">>}]
  >>

\* -------------------------------------------------- messages (telethon)
\* message.media is None, a MessageMediaPhoto, a MessageMediaDocument (the
\* only one with a .document) or another media object; message.document
\* holds .size and .attributes; message.file is <<>> for None and <<n>> for
\* a File object whose .name is n.
Filename(n) == [cls |-> "DocumentAttributeFilename", file_name |-> n]
Audio == [cls |-> "DocumentAttributeAudio", file_name |-> <<>>]
Video == [cls |-> "DocumentAttributeVideo", file_name |-> <<>>]

NoDocument == [size |-> 0, attributes |-> <<>>]
NoMessage == [media |-> None, document |-> NoDocument, file |-> <<>>]

\* isinstance(attribute, cls)
isinstance(attribute, cls) == attribute.cls = cls

\* hasattr(message.media, 'document')
hasattr_document(media) == media = "MessageMediaDocument"

\* the first DocumentAttributeFilename of a document, as File.name reads it
RECURSIVE file_name_of(_)
file_name_of(attrs) ==
  IF attrs = <<>> THEN NoneStr
  ELSE IF isinstance(Head(attrs), "DocumentAttributeFilename")
    THEN Head(attrs).file_name
    ELSE file_name_of(Tail(attrs))

\* ------------------------------------------- _get_media_type (74-96)
\* lines 85-87: the first type of the table whose set holds the extension
RECURSIVE match_type(_, _)
match_type(extension, i) ==
  IF i > Len(file_types) THEN None
  ELSE IF extension \in file_types[i].extensions
    THEN file_types[i].type_name
    ELSE match_type(extension, i + 1)

\* lines 80-93: the loop over message.media.document.attributes
RECURSIVE scan_attributes(_)
scan_attributes(attrs) ==
  IF attrs = <<>> THEN "other"
  ELSE LET attribute == Head(attrs) IN
    IF isinstance(attribute, "DocumentAttributeFilename")
      THEN LET filename == lower(attribute.file_name)
               extension == lower(suffix(filename))
               hit == match_type(extension, 1)
           IN IF hit # None THEN hit
              ELSE IF isinstance(attribute, "DocumentAttributeAudio") THEN "audio"
              ELSE IF isinstance(attribute, "DocumentAttributeVideo") THEN "video"
              ELSE scan_attributes(Tail(attrs))
      ELSE scan_attributes(Tail(attrs))

\* a classifier that gives no type to a document without a matching filename
get_media_type_NoneForOther(message) ==
  IF message.media = None THEN None
  ELSE IF hasattr_document(message.media)
    THEN LET t == scan_attributes(message.document.attributes)
         IN IF t = "other" THEN None ELSE t
  ELSE IF message.media = "MessageMediaPhoto" THEN "images"
  ELSE None

get_media_type(message) ==
  IF message.media = None THEN None
  ELSE IF hasattr_document(message.media)
    THEN scan_attributes(message.document.attributes)
  ELSE IF message.media = "MessageMediaPhoto" THEN "images"
  ELSE None

\* ------------------------------------------------ self.stats (32-39)
InitStats ==
  [total_size |-> 0,
   file_count |-> 0,
   media_types |-> [t \in {} |-> [count |-> 0, size |-> 0]],
   largest_file |-> [size |-> 0, name |-> NoneStr, type |-> None],
   start_time |-> NoTime,
   end_time |-> NoTime]

\* lines 129-130 with the count left out for type 'other'
update_totals_SkipOther(s, size, media_type) ==
  IF media_type = "other" THEN s
  ELSE [s EXCEPT !.total_size = @ + size, !.file_count = @ + 1]

\* lines 129-130
update_totals(s, size, media_type) ==
  [s EXCEPT !.total_size = @ + size, !.file_count = @ + 1]

\* lines 133-137 with no entry for type 'other'
update_media_types_SkipOther(s, size, media_type) ==
  IF media_type \in {None, "", "other"} THEN s
  ELSE LET old == s.media_types
           entry == IF media_type \in DOMAIN old THEN old[media_type]
                    ELSE [count |-> 0, size |-> 0]
       IN [s EXCEPT !.media_types =
             [t \in (DOMAIN old) \cup {media_type} |->
                IF t = media_type
                  THEN [count |-> entry.count + 1, size |-> entry.size + size]
                  ELSE old[t]]]

\* lines 133-137; media_types is a function on the types seen so far
update_media_types(s, size, media_type) ==
  IF media_type \in {None, ""} THEN s
  ELSE LET old == s.media_types
           entry == IF media_type \in DOMAIN old THEN old[media_type]
                    ELSE [count |-> 0, size |-> 0]
       IN [s EXCEPT !.media_types =
             [t \in (DOMAIN old) \cup {media_type} |->
                IF t = media_type
                  THEN [count |-> entry.count + 1, size |-> entry.size + size]
                  ELSE old[t]]]

\* getattr(message.file, 'name', 'Unknown')
getattr_name(file) == IF file = <<>> THEN Unknown ELSE file[1]

\* lines 139-144 with >= for >
update_largest_file_OrEqual(s, size, media_type, message) ==
  IF size >= s.largest_file.size
    THEN [s EXCEPT !.largest_file =
            [size |-> size, name |-> getattr_name(message.file), type |-> media_type]]
    ELSE s

\* lines 139-144
update_largest_file(s, size, media_type, message) ==
  IF size > s.largest_file.size
    THEN [s EXCEPT !.largest_file =
            [size |-> size, name |-> getattr_name(message.file), type |-> media_type]]
    ELSE s


\* ------------------------------------------------ _format_size (98-104)
\* A byte count is written in base 1024, most significant limb first, 0 being
\* <<>>; the running value size_bytes of the loop is a whole part and a
\* fraction, both in limbs, and size_bytes /= 1024 moves one limb from the
\* whole part to the fraction. The float of line 103 is exact while the
\* non-zero limbs span at most ExactLimbs limbs (50 of its 53 bits).
ExactLimbs == 5

Units == <<"B", "KB", "MB", "GB", "TB">>

RECURSIVE to_limbs(_)
to_limbs(n) == IF n = 0 THEN <<>> ELSE Append(to_limbs(n \div 1024), n % 1024)

RECURSIVE limbs_value(_)
limbs_value(l) ==
  IF l = <<>> THEN 0 ELSE limbs_value(SubSeq(l, 1, Len(l) - 1)) * 1024 + l[Len(l)]

\* frac * 100 as <<carry, limbs>>: the carry is the integer part of the product
RECURSIVE times100(_)
times100(frac) ==
  IF frac = <<>> THEN <<0, <<>>>>
  ELSE LET rest == times100(Tail(frac))
           t == Head(frac) * 100 + rest[1]
       IN <<t \div 1024, <<t % 1024>> \o rest[2]>>

\* f"{size_bytes:.2f} {unit}": hundredths rounded half to even
render(whole, frac, unit) ==
  LET p == times100(frac)
      q == p[1]
      r == p[2]
      above == r # <<>> /\ (r[1] > 512 \/ (r[1] = 512 /\ \E i \in 2..Len(r) : r[i] # 0))
      tie == r # <<>> /\ r[1] = 512 /\ \A i \in 2..Len(r) : r[i] = 0
      up == above \/ (tie /\ q % 2 = 1)
      h == q + (IF up THEN 1 ELSE 0)
  IN [whole |-> limbs_value(whole) + h \div 100, cents |-> h % 100, unit |-> unit]

\* the loop of lines 100-103 with <= for <
RECURSIVE format_loop_OrEqual(_, _, _)
format_loop_OrEqual(whole, frac, i) ==
  IF i > Len(Units) THEN render(whole, frac, "PB")
  ELSE IF Len(whole) <= 1 \/ (whole = <<1, 0>> /\ \A k \in 1..Len(frac) : frac[k] = 0)
    THEN render(whole, frac, Units[i])
  ELSE format_loop_OrEqual(SubSeq(whole, 1, Len(whole) - 1),
                           <<whole[Len(whole)]>> \o frac, i + 1)

\* the loop of lines 100-103 from unit i on; size_bytes < 1024 when the whole
\* part has at most one limb
RECURSIVE format_loop(_, _, _)
format_loop(whole, frac, i) ==
  IF i > Len(Units) THEN render(whole, frac, "PB")
  ELSE IF Len(whole) <= 1 THEN render(whole, frac, Units[i])
  ELSE format_loop(SubSeq(whole, 1, Len(whole) - 1),
                   <<whole[Len(whole)]>> \o frac, i + 1)

format_size(size_bytes) == format_loop(size_bytes, <<>>, 1)

\* ------------------------------------------------------------ Config (14-20)
DefaultBatchSize == 100
BatchSizes == {0, 2, DefaultBatchSize}

\* ------------------------------------------------------------------ state
VARIABLES
  pc,          \* position of analyze_channel
  connected,   \* self.client.is_connected()
  authorized,  \* self.client.is_user_authorized()
  BATCH_SIZE,  \* self.config.BATCH_SIZE
  stats,       \* self.stats
  message,     \* loop variable of line 124
  media_type,  \* local of line 127
  progress,    \* completed amount of the progress task of line 123
  failure,     \* the exception raised inside analyze_channel in this run
  clock,       \* the last value of datetime.now()
  displayed,   \* calls of _display_results in this run
  saved,       \* calls of _save_stats in this run
  pulled,      \* messages yielded by iter_messages since construction
  runs,        \* invocations of analyze_channel since construction
  processed,   \* history: type and size of every aggregated message
  run_files,   \* messages aggregated in this run
  console      \* rows printed by _display_results in this run

vars == <<pc, connected, authorized, BATCH_SIZE, stats, message, media_type,
          progress, failure, clock, displayed, saved, pulled, runs, processed,
          run_files, console>>

NoFailure == [exc |-> None, at |-> None]

\* ------------------------------------------------------ the message source
StreamNames ==
  { <<"a",".","M","P","4">>, <<"f">> }

StreamAttributes ==
  { <<Filename(n)>> : n \in StreamNames } \cup { <<Audio>> }

\* message.file of a document: File.name is the declared file name; the File
\* object is not part of the source, so for a document without a file name
\* both outcomes of getattr (a None name, no such attribute) are drawn
FilesOf(attrs) ==
  {<<file_name_of(attrs)>>} \cup
  (IF file_name_of(attrs) = NoneStr THEN {<<>>} ELSE {})

DocumentMessages ==
  { [media |-> "MessageMediaDocument",
     document |-> [size |-> z, attributes |-> a],
     file |-> f] :
       z \in 0..MaxSize, a \in StreamAttributes, f \in {<<>>, <<NoneStr>>} \cup {<<n>> : n \in StreamNames} }

StreamDocuments == { m \in DocumentMessages : m.file \in FilesOf(m.document.attributes) }

PhotoMessage ==
  [media |-> "MessageMediaPhoto", document |-> NoDocument, file |-> <<NoneStr>>]

StreamOthers == { PhotoMessage, NoMessage }

\* ------------------------------------------------------------------- Init
Init ==
  /\ pc = "Idle"
  /\ connected = FALSE
  /\ authorized \in BOOLEAN
  /\ BATCH_SIZE \in BatchSizes
  /\ stats = InitStats
  /\ message = NoMessage
  /\ media_type = None
  /\ progress = 0
  /\ failure = NoFailure
  /\ clock = 0
  /\ displayed = 0
  /\ saved = 0
  /\ pulled = 0
  /\ runs = 0
  /\ processed = <<>>
  /\ run_files = 0
  /\ console = <<>>

\* ------------------------------------------- analyze_channel (106-152)
\* lines 150-152: the exception is logged and re-raised to the caller
raise_(exc) ==
  /\ pc' = "Failed"
  /\ failure' = [exc |-> exc, at |-> pc]

\* the driver is suspended in an await of the client
Suspended ==
  \/ pc = "Connecting" /\ ~connected
  \/ pc \in {"CheckingAuth", "Authenticating", "Resolving", "Streaming"}

\* main(), line 215, or a caller that invokes the analyzer again; time has
\* passed since the previous run: the clock of run r starts at 3 * r
Invoke ==
  /\ pc \in {"Idle", "Finalized", "Failed"}
  /\ runs < MaxRuns
  /\ runs' = runs + 1
  /\ pc' = "Connecting"
  /\ clock' = 3 * (runs + 1)
  /\ failure' = NoFailure
  /\ displayed' = 0
  /\ saved' = 0
  /\ UNCHANGED <<connected, authorized, BATCH_SIZE, stats, message, media_type,
                 progress, pulled, processed>>
  /\ run_files' = 0
  /\ console' = <<>>

\* lines 109-110 with start_time stamped before the connection
Connect_StampsStart ==
  /\ pc = "Connecting"
  /\ connected' = TRUE
  /\ clock' = clock + 1
  /\ stats' = [stats EXCEPT !.start_time = clock + 1]
  /\ pc' = "CheckingAuth"
  /\ UNCHANGED <<authorized, BATCH_SIZE, message, media_type, progress,
                 failure, displayed, saved, pulled, runs, processed>>
  /\ UNCHANGED <<run_files, console>>

\* lines 109-110
Connect ==
  /\ pc = "Connecting"
  /\ connected' = TRUE
  /\ pc' = "CheckingAuth"
  /\ UNCHANGED <<authorized, BATCH_SIZE, stats, message, media_type, progress,
                 failure, clock, displayed, saved, pulled, runs, processed>>
  /\ UNCHANGED <<run_files, console>>

\* line 111
CheckAuthorized ==
  /\ pc = "CheckingAuth"
  /\ pc' = IF authorized THEN "Resolving" ELSE "Authenticating"
  /\ UNCHANGED <<connected, authorized, BATCH_SIZE, stats, message, media_type,
                 progress, failure, clock, displayed, saved, pulled, runs, processed>>
  /\ UNCHANGED <<run_files, console>>

\* lines 112-114
Authenticate ==
  /\ pc = "Authenticating"
  /\ authorized' = TRUE
  /\ pc' = "Resolving"
  /\ UNCHANGED <<connected, BATCH_SIZE, stats, message, media_type, progress,
                 failure, clock, displayed, saved, pulled, runs, processed>>
  /\ UNCHANGED <<run_files, console>>

\* lines 115-123: the channel is resolved, start_time stamped, the task added
Resolve ==
  /\ pc = "Resolving"
  /\ clock' = clock + 1
  /\ stats' = [stats EXCEPT !.start_time = clock + 1]
  /\ progress' = 0
  /\ pc' = "Streaming"
  /\ UNCHANGED <<connected, authorized, BATCH_SIZE, message, media_type,
                 failure, displayed, saved, pulled, runs, processed>>
  /\ UNCHANGED <<run_files, console>>

\* a failing client call whose exception ends the stream like exhaustion
CollaboratorRaises_EndsStream ==
  /\ Suspended
  /\ failure' = [exc |-> "Exception", at |-> pc]
  /\ IF pc = "Streaming"
       THEN /\ clock' = clock + 1
            /\ stats' = [stats EXCEPT !.end_time = clock + 1]
            /\ pc' = "Displaying"
       ELSE /\ pc' = "Failed"
            /\ UNCHANGED <<clock, stats>>
  /\ UNCHANGED <<connected, authorized, BATCH_SIZE, message, media_type,
                 progress, displayed, saved, pulled, runs, processed>>
  /\ UNCHANGED <<run_files, console>>

\* connect, is_user_authorized, start, get_entity or iter_messages raises
CollaboratorRaises ==
  /\ Suspended
  /\ raise_("Exception")
  /\ UNCHANGED <<connected, authorized, BATCH_SIZE, stats, message, media_type,
                 progress, clock, displayed, saved, pulled, runs, processed>>
  /\ UNCHANGED <<run_files, console>>

\* a cancellation that is caught and leaves the loop like exhaustion
Cancel_EndsStream ==
  /\ Suspended
  /\ failure' = [exc |-> "CancelledError", at |-> pc]
  /\ IF pc = "Streaming"
       THEN /\ clock' = clock + 1
            /\ stats' = [stats EXCEPT !.end_time = clock + 1]
            /\ pc' = "Displaying"
       ELSE /\ pc' = "Failed"
            /\ UNCHANGED <<clock, stats>>
  /\ UNCHANGED <<connected, authorized, BATCH_SIZE, message, media_type,
                 progress, displayed, saved, pulled, runs, processed>>
  /\ UNCHANGED <<run_files, console>>

\* the caller cancels the task: CancelledError is raised in the pending await;
\* no handler of analyze_channel catches it without re-raising
Cancel ==
  /\ Suspended
  /\ raise_("CancelledError")
  /\ UNCHANGED <<connected, authorized, BATCH_SIZE, stats, message, media_type,
                 progress, clock, displayed, saved, pulled, runs, processed>>
  /\ UNCHANGED <<run_files, console>>

\* lines 124-146 for a message with a document: the loop body has no await
PullDocument ==
  /\ pc = "Streaming"
  /\ pulled < MaxPulled
  /\ \E m \in StreamDocuments :
       LET size == m.document.size
           mt == get_media_type(m)
           s1 == update_totals(stats, size, mt)
           s2 == update_media_types(s1, size, mt)
           s3 == update_largest_file(s2, size, mt, m)
       IN /\ message' = m
          /\ media_type' = mt
          /\ stats' = s3
          /\ processed' = Append(processed, [type |-> mt, size |-> size])
          /\ run_files' = run_files + 1
          /\ IF BATCH_SIZE = 0
               THEN raise_("ZeroDivisionError") /\ UNCHANGED progress
               ELSE /\ progress' = IF s3.file_count % BATCH_SIZE = 0
                                     THEN progress + BATCH_SIZE ELSE progress
                    /\ UNCHANGED <<pc, failure>>
  /\ pulled' = pulled + 1
  /\ UNCHANGED <<connected, authorized, BATCH_SIZE, clock, displayed, saved, runs>>
  /\ UNCHANGED console

\* lines 124-125 for a message without a document: nothing is aggregated
PullOther ==
  /\ pc = "Streaming"
  /\ pulled < MaxPulled
  /\ \E m \in StreamOthers : message' = m
  /\ pulled' = pulled + 1
  /\ UNCHANGED <<pc, connected, authorized, BATCH_SIZE, stats, media_type,
                 progress, failure, clock, displayed, saved, runs, processed>>
  /\ UNCHANGED <<run_files, console>>

\* line 147: iter_messages is exhausted
Exhausted ==
  /\ pc = "Streaming"
  /\ clock' = clock + 1
  /\ stats' = [stats EXCEPT !.end_time = clock + 1]
  /\ pc' = "Displaying"
  /\ UNCHANGED <<connected, authorized, BATCH_SIZE, message, media_type,
                 progress, failure, displayed, saved, pulled, runs, processed>>
  /\ UNCHANGED <<run_files, console>>

\* ------------------------------------------- _display_results (170-209)
\* bool(str): neither None nor ''
truthy(str) == str # NoneStr /\ str # <<>>

\* lines 175-187: the rows of the main table
summary_table(s) ==
  << [metric |-> "Total Files", value |-> s.file_count],
     [metric |-> "Total Size", value |-> format_size(to_limbs(s.total_size))],
     [metric |-> "Analysis Duration", value |-> s.end_time - s.start_time] >>
  \o (IF truthy(s.largest_file.name)
        THEN << [metric |-> "Largest File",
                 value |-> [name |-> s.largest_file.name,
                            size |-> format_size(to_limbs(s.largest_file.size))]] >>
        ELSE <<>>)

\* sorted(): the type names in ascending order
SortedTypes ==
  << "apps", "archives", "audio", "code", "data", "design", "documents",
     "ebooks", "images", "other", "video", "videos" >>

\* f"{percentage:.1f}%" of (size / total_size) * 100, in tenths, rounded half
\* to even
percentage(size, total_size) ==
  LET q == (size * 1000) \div total_size
      r == (size * 1000) % total_size
  IN IF 2 * r > total_size \/ (2 * r = total_size /\ q % 2 = 1) THEN q + 1 ELSE q

\* lines 197-206: one row per type, sorted by type; the label of a row is
\* the capitalized type name
type_table(s) ==
  LET present == SelectSeq(SortedTypes, LAMBDA t : t \in DOMAIN s.media_types)
  IN [i \in 1..Len(present) |->
        [media_type |-> present[i],
         count |-> s.media_types[present[i]].count,
         size |-> format_size(to_limbs(s.media_types[present[i]].size)),
         percentage |-> percentage(s.media_types[present[i]].size, s.total_size)]]

\* a fault of line 200 that is swallowed: the run goes on to _save_stats
DisplayFaults_ThenSaves ==
  /\ pc = "Displaying"
  /\ DOMAIN stats.media_types # {}
  /\ stats.total_size = 0
  /\ displayed' = displayed + 1
  /\ console' = summary_table(stats)
  /\ failure' = [exc |-> "ZeroDivisionError", at |-> pc]
  /\ pc' = "Saving"
  /\ UNCHANGED <<connected, authorized, BATCH_SIZE, stats, message, media_type,
                 progress, clock, saved, pulled, runs, processed, run_files>>

\* line 200 divides by total_size for every entry of media_types; the main
\* table is printed before (line 187)
DisplayFaults ==
  /\ pc = "Displaying"
  /\ DOMAIN stats.media_types # {}
  /\ stats.total_size = 0
  /\ displayed' = displayed + 1
  /\ console' = summary_table(stats)
  /\ raise_("ZeroDivisionError")
  /\ UNCHANGED <<connected, authorized, BATCH_SIZE, stats, message, media_type,
                 progress, clock, saved, pulled, runs, processed, run_files>>

Display ==
  /\ pc = "Displaying"
  /\ ~(DOMAIN stats.media_types # {} /\ stats.total_size = 0)
  /\ displayed' = displayed + 1
  /\ console' = summary_table(stats) \o
                (IF DOMAIN stats.media_types # {} THEN type_table(stats) ELSE <<>>)
  /\ pc' = "Saving"
  /\ UNCHANGED <<connected, authorized, BATCH_SIZE, stats, message, media_type,
                 progress, failure, clock, saved, pulled, runs, processed, run_files>>

\* ------------------------------------------------ _save_stats (154-168)
Save ==
  /\ pc = "Saving"
  /\ saved' = saved + 1
  /\ pc' = "Finalized"
  /\ UNCHANGED <<connected, authorized, BATCH_SIZE, stats, message, media_type,
                 progress, failure, clock, displayed, pulled, runs, processed>>
  /\ UNCHANGED <<run_files, console>>

Next ==
  \/ Invoke
  \/ Connect
  \/ CheckAuthorized
  \/ Authenticate
  \/ Resolve
  \/ CollaboratorRaises
  \/ Cancel
  \/ PullDocument
  \/ PullOther
  \/ Exhausted
  \/ DisplayFaults
  \/ Display
  \/ Save

Spec == Init /\ [][Next]_vars


\* ------------------------------------------ the classifier on its own
\* inputs of _get_media_type: every extension of the table and some unknown
\* ones, in lower, upper and mixed case, after two stems, and names whose
\* suffix is empty
AllExtensions == UNION { file_types[i].extensions : i \in 1..Len(file_types) }

upper_char(c) ==
  IF \E i \in 1..Len(LowerLetters) : LowerLetters[i] = c
    THEN UpperLetters[CHOOSE i \in 1..Len(LowerLetters) : LowerLetters[i] = c]
    ELSE c

upper(s) == [i \in 1..Len(s) |-> upper_char(s[i])]

mixed(s) == [i \in 1..Len(s) |-> IF i % 2 = 0 THEN upper_char(s[i]) ELSE s[i]]

InputExtensions ==
  AllExtensions \cup { <<".","b","i","n">>, <<".","m","p">>, <<".","m","p","4","x">> }

InputStems == { <<"a">>, <<"R","e",".","v","1">> }

InputNames ==
  { st \o v : st \in InputStems,
              v \in UNION { {e, upper(e), mixed(e)} : e \in InputExtensions } }
  \cup { <<>>, <<"f">>, <<".","p","y">>, <<"x",".">>, <<"d",".","m","p","4","/","x">>,
         <<"D",".","M","P","4","/">>, <<"m","p","4">> }

InputAttributes ==
  { <<Filename(n)>> : n \in InputNames }
  \cup { <<Video, Filename(n)>> : n \in {<<"a",".","P","D","F">>, <<"f">>} }
  \cup { <<Filename(n), Audio>> : n \in {<<"a",".","m","p","4">>, <<"f">>} }
  \cup { <<Filename(<<"a",".","b","i","n">>), Filename(<<"a",".","J","S","O","N">>)>>,
         <<Filename(<<"a",".","z","i","p">>), Filename(<<"a",".","p","d","f">>)>> }
  \cup { <<>>, <<Audio>>, <<Video>>, <<Audio, Video>>, <<Video, Audio>> }

ClassifyInputs ==
  { [media |-> "MessageMediaDocument",
     document |-> [size |-> 1, attributes |-> a],
     file |-> <<file_name_of(a)>>] : a \in InputAttributes }
  \cup StreamOthers
  \cup { [media |-> "MessageMediaGeo", document |-> NoDocument, file |-> <<>>] }

InitClassify ==
  /\ pc = "Idle"
  /\ connected = FALSE
  /\ authorized = FALSE
  /\ BATCH_SIZE = DefaultBatchSize
  /\ stats = InitStats
  /\ message = NoMessage
  /\ media_type = None
  /\ progress = 0
  /\ failure = NoFailure
  /\ clock = 0
  /\ displayed = 0
  /\ saved = 0
  /\ pulled = 0
  /\ runs = 0
  /\ processed = <<>>
  /\ run_files = 0
  /\ console = <<>>

\* one call of _get_media_type(message)
Classify ==
  /\ \E m \in ClassifyInputs :
       /\ message' = m
       /\ media_type' = get_media_type(m)
  /\ UNCHANGED <<pc, connected, authorized, BATCH_SIZE, stats, progress,
                 failure, clock, displayed, saved, pulled, runs, processed>>
  /\ UNCHANGED <<run_files, console>>

NextClassify == Classify

SpecClassify == InitClassify /\ [][NextClassify]_vars

\* ----------------------------------------------- _format_size on its own
\* byte counts of up to MaxLimbs limbs whose limbs after the first ExactLimbs
\* are 0, so that the float arithmetic of _format_size is exact
MaxLimbs == 7

LimbValues == {0, 1, 128, 512, 1023}

FormatInputs ==
  { b \in UNION { [1..n -> LimbValues] : n \in 0..MaxLimbs } :
      /\ b = <<>> \/ b[1] # 0
      /\ \A i \in (ExactLimbs + 1)..Len(b) : b[i] = 0 }

InitFormat ==
  /\ pc = "Idle"
  /\ connected = FALSE
  /\ authorized = FALSE
  /\ BATCH_SIZE = DefaultBatchSize
  /\ stats = InitStats
  /\ message = NoMessage
  /\ media_type = None
  /\ progress = 0
  /\ failure = NoFailure
  /\ clock = 0
  /\ displayed = 0
  /\ saved = 0
  /\ pulled = 0
  /\ runs = 0
  /\ processed = <<>>
  /\ run_files = 0
  /\ console = <<>>

\* one call of _format_size(size_bytes), its result printed as a row
FormatSize ==
  /\ console = <<>>
  /\ \E b \in FormatInputs :
       console' = << [metric |-> "Size", size_bytes |-> b, value |-> format_size(b)] >>
  /\ UNCHANGED <<pc, connected, authorized, BATCH_SIZE, stats, message, media_type,
                 progress, failure, clock, displayed, saved, pulled, runs,
                 processed, run_files>>

NextFormat == FormatSize

SpecFormat == InitFormat /\ [][NextFormat]_vars

\* ------------------------------------------------------------ properties
RECURSIVE SumSizes(_)
SumSizes(seq) == IF seq = <<>> THEN 0 ELSE Head(seq).size + SumSizes(Tail(seq))

MaxSeen(seq) ==
  IF seq = <<>> THEN 0
  ELSE CHOOSE z \in { seq[i].size : i \in 1..Len(seq) } :
         \A i \in 1..Len(seq) : seq[i].size <= z

\* the first position of the history that has the maximum size
FirstMax(seq) ==
  CHOOSE i \in 1..Len(seq) :
    /\ seq[i].size = MaxSeen(seq)
    /\ \A j \in 1..(i-1) : seq[j].size # MaxSeen(seq)

RECURSIVE SumTypes(_, _)
SumTypes(mt, keys) ==
  IF keys = {} THEN 0
  ELSE LET k == CHOOSE k \in keys : TRUE
       IN mt[k].size + SumTypes(mt, keys \ {k})

\* C1: file_count is the number of aggregated messages and total_size the sum
\* of their sizes, whatever type each message was given.
C1_TotalsMatchHistory ==
  /\ stats.file_count = Len(processed)
  /\ stats.total_size = SumSizes(processed)

C1_Witness ==
  /\ Len(processed) >= 2
  /\ stats.total_size > 0
  /\ \E i, j \in 1..Len(processed) :
       processed[i].type = "other" /\ processed[j].type # "other"

\* C2 as stated: after any processed messages largest_file has the maximum
\* size seen and the type of the first message that had that size.
C2_LargestIsFirstMaximum ==
  processed # <<>> =>
    /\ stats.largest_file.size = MaxSeen(processed)
    /\ stats.largest_file.type = processed[FirstMax(processed)].type

\* C2 amended: largest_file.size is the maximum size seen (0 when nothing was
\* seen); when that maximum is positive the type is the type of the first
\* message that had it, and a later message of equal size never replaces it;
\* when it is 0, largest_file still has its initial value.
C2_LargestIsFirstPositiveMaximum ==
  /\ stats.largest_file.size = MaxSeen(processed)
  /\ MaxSeen(processed) > 0 =>
       stats.largest_file.type = processed[FirstMax(processed)].type
  /\ MaxSeen(processed) = 0 => stats.largest_file = InitStats.largest_file

C2_Witness ==
  \E i, j \in 1..Len(processed) :
    /\ i < j
    /\ processed[i].size = MaxSeen(processed)
    /\ processed[j].size = MaxSeen(processed)
    /\ processed[i].size > 0
    /\ processed[i].type # processed[j].type

\* C3 as stated: a photo-only message pulled from the stream is aggregated:
\* it adds 1 to file_count and is counted under 'images'.
C3_PhotoIsAggregated ==
  [][ (pulled' = pulled + 1 /\ message'.media = "MessageMediaPhoto") =>
        /\ stats'.file_count = stats.file_count + 1
        /\ "images" \in DOMAIN stats'.media_types ]_vars

\* C4: when a call of the client raises, the run has failed and neither
\* _display_results nor _save_stats was executed in it.
C4_FailureShowsNoReport ==
  failure.exc = "Exception" =>
    /\ pc = "Failed"
    /\ displayed = 0
    /\ saved = 0

C4_Witness ==
  /\ pc = "Failed"
  /\ failure = [exc |-> "Exception", at |-> "Streaming"]
  /\ runs = 1
  /\ Len(processed) >= 1

\* C5 as stated: _display_results never faults when total_size is 0.
C5_NoFaultOnZeroTotal ==
  (pc = "Failed" /\ failure.at = "Displaying") => stats.total_size # 0

\* C6: a cancellation delivered while the driver is suspended ends the run as
\* failed with CancelledError, with nothing displayed or saved, and once it
\* is observed no message is pulled and no statistic changes.
C6_CancelEndsRun ==
  [][ failure'.exc = "CancelledError" =>
        /\ pc' = "Failed"
        /\ displayed' = 0
        /\ saved' = 0
        /\ failure.exc = "CancelledError" =>
             (pulled' = pulled /\ message' = message /\ stats' = stats) ]_vars

C6_Witness ==
  /\ pc = "Failed"
  /\ failure = [exc |-> "CancelledError", at |-> "Streaming"]
  /\ runs = 1
  /\ Len(processed) >= 1

\* C7 as stated: every run begins with fresh statistics.
C7_RunStartsFresh ==
  pc = "Connecting" =>
    /\ stats.file_count = 0
    /\ stats.total_size = 0
    /\ DOMAIN stats.media_types = {}
    /\ stats.largest_file.size = 0

\* C8: total_size is the sum of media_types[c].size over the types present,
\* at every suspension point and at run end.
C8_TotalIsSumOfTypes ==
  (Suspended \/ pc \in {"Displaying", "Saving", "Finalized", "Failed"}) =>
    stats.total_size = SumTypes(stats.media_types, DOMAIN stats.media_types)

C8_Witness ==
  /\ pc = "Streaming"
  /\ stats.total_size > 0
  /\ "other" \in DOMAIN stats.media_types
  /\ stats.media_types["other"].size > 0
  /\ Cardinality(DOMAIN stats.media_types) >= 2

\* two characters that are the same letter in either case
SameLetter(c, d) ==
  \/ c = d
  \/ \E i \in 1..Len(UpperLetters) : {c, d} = {UpperLetters[i], LowerLetters[i]}

\* position in the table of the first type that lists extension e in any
\* letter case, 0 when no type lists it
TablePosition(e) ==
  LET hits == { i \in 1..Len(file_types) :
                  \E x \in file_types[i].extensions :
                    /\ Len(x) = Len(e)
                    /\ \A k \in 1..Len(x) : SameLetter(x[k], e[k]) }
  IN IF hits = {} THEN 0 ELSE CHOOSE i \in hits : \A j \in hits : i <= j

FilenameAttributes(attrs) ==
  SelectSeq(attrs, LAMBDA a : a.cls = "DocumentAttributeFilename")

\* C9: the type of a document with a file name is the first type, in table
\* order, that lists the extension of the name whatever its letter case, and
\* 'other' when no type lists it (with several file names, the first name
\* whose extension is listed decides).
C9_FirstTypeOfExtension ==
  LET names == FilenameAttributes(message.document.attributes)
      listed == { k \in 1..Len(names) : TablePosition(suffix(names[k].file_name)) > 0 }
  IN (message.media = "MessageMediaDocument" /\ names # <<>>) =>
       IF listed = {} THEN media_type = "other"
       ELSE LET k == CHOOSE k \in listed : \A l \in listed : k <= l
            IN media_type =
                 file_types[TablePosition(suffix(names[k].file_name))].type_name

C9_Witness ==
  /\ message.media = "MessageMediaDocument"
  /\ message.document.attributes = <<Filename(<<"a",".","X","L","S","X">>)>>
  /\ media_type = "documents"

\* C10 as stated: a document without a file name attribute is 'audio' when it
\* carries an audio attribute, 'video' when it carries a video attribute and
\* 'other' only when it carries neither.
C10_FlagsClassifyUnnamed ==
  LET attrs == message.document.attributes
      has(cls) == \E k \in 1..Len(attrs) : attrs[k].cls = cls
  IN (message.media = "MessageMediaDocument" /\ ~has("DocumentAttributeFilename")) =>
       /\ has("DocumentAttributeAudio") => media_type \in {"audio", "video"}
       /\ (has("DocumentAttributeAudio") /\ ~has("DocumentAttributeVideo")) => media_type = "audio"
       /\ (has("DocumentAttributeVideo") /\ ~has("DocumentAttributeAudio")) => media_type = "video"
       /\ media_type = "other" =>
            (~has("DocumentAttributeAudio") /\ ~has("DocumentAttributeVideo"))

\* the progress task of the current run exists
InStream ==
  \/ pc \in {"Streaming", "Displaying", "Saving", "Finalized"}
  \/ pc = "Failed" /\ failure.at \in {"Streaming", "Displaying"}

\* C11 as stated: with BATCH_SIZE = B >= 1, after n messages were aggregated
\* in a run the progress task was advanced floor(n / B) times by B, so the
\* cumulative advance never exceeds n and lags n by less than B.
C11_ProgressFollowsRunCount ==
  (BATCH_SIZE >= 1 /\ InStream) =>
    /\ progress = BATCH_SIZE * (run_files \div BATCH_SIZE)
    /\ progress <= run_files
    /\ run_files - progress < BATCH_SIZE

\* C12 as stated: runs over the same stream that differ only in BATCH_SIZE
\* have the same outcome and the same statistics. The statistics of a step
\* are computed without reading BATCH_SIZE, and with the default BATCH_SIZE
\* aggregating a document leaves the run streaming with no failure; so the
\* same must be true of that step for every BATCH_SIZE, 0 included.
C12_BatchSizeHasNoEffect ==
  [][ processed' # processed => (pc' = "Streaming" /\ failure' = failure) ]_vars

AllUnits == <<"B", "KB", "MB", "GB", "TB", "PB">>

\* C13: _format_size picks the unit of index k, the least k in 0..4 with
\* b < 1024^(k+1) (b has at most k+1 limbs) or 5 (PB), and renders b / 1024^k
\* with two fractional digits: 0 is 0.00 B, 1023 is 1023.00 B, 1024 is
\* 1.00 KB, 1536 is 1.50 KB, 1024^2 is 1.00 MB, and 1024^6 or more is in PB.
C13_UnitAndValue ==
  console # <<>> =>
    LET b == console[1].size_bytes
        v == console[1].value
        k == IF Len(b) = 0 THEN 0 ELSE IF Len(b) > 6 THEN 5 ELSE Len(b) - 1
        top == limbs_value(SubSeq(b, 1, Len(b) - k))
        next == IF k = 0 THEN 0 ELSE b[Len(b) - k + 1]
        h == (v.whole - top) * 100 + v.cents
    IN /\ v.unit = AllUnits[k + 1]
       /\ v.cents \in 0..99
       /\ h \in 0..100
       \* within half a hundredth of b / 1024^k, of which 'next' is the first
       \* limb of the fraction
       /\ h * 1024 - 100 * next \in (0 - 512)..(512 + 100)
       /\ Len(b) <= 2 =>
            LET n == limbs_value(b)
                d == IF k = 0 THEN 1 ELSE 1024
                e == 100 * n - (v.whole * 100 + v.cents) * d
            IN 2 * e <= d /\ 2 * e >= 0 - d
       /\ b = <<>> => v = [whole |-> 0, cents |-> 0, unit |-> "B"]
       /\ b = <<1023>> => v = [whole |-> 1023, cents |-> 0, unit |-> "B"]
       /\ b = <<1, 0>> => v = [whole |-> 1, cents |-> 0, unit |-> "KB"]
       /\ b = <<1, 512>> => v = [whole |-> 1, cents |-> 50, unit |-> "KB"]
       /\ b = <<1, 0, 0>> => v = [whole |-> 1, cents |-> 0, unit |-> "MB"]
       /\ Len(b) >= 7 => (v.unit = "PB" /\ v.whole >= 1024)

C13_Witness ==
  /\ console # <<>>
  /\ console[1].size_bytes = <<1, 0, 0, 0, 0, 0, 0>>
  /\ console[1].value = [whole |-> 1024, cents |-> 0, unit |-> "PB"]

\* C14: in every run _display_results and _save_stats are each called at
\* most once, display only after exhaustion with end_time stamped, saving
\* only after a display that returned without raising; from the stamping of
\* end_time on no message is pulled and no statistic changes.
C14_FinalizationOrdered ==
  [][ /\ displayed' <= 1
      /\ saved' <= 1
      /\ displayed' > displayed =>
           (pc = "Displaying" /\ saved = 0 /\ stats.end_time > stats.start_time)
      /\ saved' > saved =>
           (pc = "Saving" /\ displayed = 1 /\ failure.exc = None)
      /\ saved' = 1 => (displayed' = 1 /\ failure'.exc = None)
      /\ pc \in {"Displaying", "Saving", "Finalized"} =>
           (stats' = stats /\ pulled' = pulled /\ message' = message) ]_vars

C14_Witness ==
  /\ pc = "Finalized"
  /\ displayed = 1
  /\ saved = 1
  /\ run_files >= 1
  /\ stats.total_size > 0

PreStream == {"Connecting", "CheckingAuth", "Authenticating", "Resolving"}

\* C15: the invocation, the steps of connecting, authenticating and resolving
\* and a failure of any of them leave every field of stats as it was;
\* start_time is written only by the step that resolves the channel and
\* starts the stream.
C15_PreStreamKeepsStats ==
  [][ /\ (pc' \in PreStream \/ (pc' = "Failed" /\ failure'.at \in PreStream)) =>
           stats' = stats
      /\ stats'.start_time # stats.start_time =>
           (pc = "Resolving" /\ pc' = "Streaming" /\ pulled' = pulled) ]_vars

C15_Witness ==
  /\ pc = "Failed"
  /\ failure.at = "Resolving"
  /\ runs = 2
  /\ stats.file_count >= 1
  /\ stats.start_time # NoTime

NoFilename(m) ==
  /\ m.media = "MessageMediaDocument"
  /\ \A k \in 1..Len(m.document.attributes) :
       m.document.attributes[k].cls # "DocumentAttributeFilename"

RECURSIVE SumCounts(_, _)
SumCounts(mt, keys) ==
  IF keys = {} THEN 0
  ELSE LET k == CHOOSE k \in keys : TRUE
       IN mt[k].count + SumCounts(mt, keys \ {k})

C17_LargestHasName ==
  stats.largest_file.size > 0 =>
    /\ stats.largest_file.name # NoneStr
    /\ pc = "Saving" =>
         \E i \in 1..Len(console) : console[i].metric = "Largest File"

====
